---- MODULE Spec2Model ----
(***************************************************************************)
(* Model of the Rust backend of the compiler:                             *)
(*   compiler-core/src/rust/compile.rs  the emitter over the typed IR     *)
(*   compiler-core/src/rust/ast.rs      the emitter over the small AST    *)
(* Text is a sequence of one-character strings.  A renderer's result is   *)
(* either the text it returns or the todo!() panic that ended it, with    *)
(* the source line of that todo!().                                       *)
(***************************************************************************)
EXTENDS Integers, Sequences, FiniteSets, TLC

VARIABLES
    call,    \* the function the driver invoked ("none" before the call)
    arg,     \* its argument
    ret,     \* what it returned: a Result, or a sequence of ids (find_generics)
    pc,      \* compile_type run over shared cells: "idle", "run", "done", "panic", "overflow"
    cells,   \* the RefCell<TypeVar> cells of the run: cell -> TypeVar
    work,    \* the pending frames of the run, the next one first
    out      \* the text the run has built so far

vars == <<call, arg, ret, pc, cells, work, out>>

-----------------------------------------------------------------------------
(* Bounds of the model *)

MaxStmts == 2       \* statements per module
MaxArgs == 2        \* arguments per function and per call, expressions per sequence
MaxFields == 2      \* fields per struct pattern and per construction
NumCells == 2       \* type-variable cells of a compile_type run

\* the sequences over S of length lo..hi
Seqs(S, lo, hi) == UNION {[1..k -> S] : k \in lo..hi}

-----------------------------------------------------------------------------
(* Text *)

Digit(d) == <<"0", "1", "2", "3", "4", "5", "6", "7", "8", "9">>[d + 1]

RECURSIVE NatToString(_)
NatToString(n) ==
    IF n < 10 THEN <<Digit(n)>> ELSE NatToString(n \div 10) \o <<Digit(n % 10)>>

IntToString(v) == IF v < 0 THEN <<"-">> \o NatToString(-v) ELSE NatToString(v)

RECURSIVE Join(_, _)
Join(ss, sep) ==
    IF Len(ss) = 0 THEN <<>>
    ELSE IF Len(ss) = 1 THEN ss[1]
    ELSE ss[1] \o sep \o Join(Tail(ss), sep)

RECURSIVE Concat(_)
Concat(ss) == IF Len(ss) = 0 THEN <<>> ELSE ss[1] \o Concat(Tail(ss))

-----------------------------------------------------------------------------
(* Results: the returned value, or the todo!() that panicked *)

Ok(v) == [ok |-> TRUE, val |-> v, line |-> 0]

Todo(l) == [ok |-> FALSE, val |-> <<>>, line |-> l]

\* a returned Vec<u64> of type-variable ids
OkIds(v) == [ok |-> TRUE, ids |-> v, line |-> 0]

Ids(rs) == [i \in 1..Len(rs) |-> rs[i].ids]

AllOk(rs) == \A i \in 1..Len(rs) : rs[i].ok

FirstPanic(rs) == rs[CHOOSE i \in 1..Len(rs) : ~rs[i].ok /\ \A j \in 1..(i - 1) : rs[j].ok]

Vals(rs) == [i \in 1..Len(rs) |-> rs[i].val]

\* iter().map(f).collect().join(sep): the elements are rendered in order and the
\* first panic ends the whole evaluation.
MapJoin(rs, sep) == IF AllOk(rs) THEN Ok(Join(Vals(rs), sep)) ELSE FirstPanic(rs)

-----------------------------------------------------------------------------
(* compile.rs *)

compile_public(c) == IF c THEN Ok(<<"p", "u", "b", " ">>) ELSE Ok(<<>>)

compile_doc(d) ==
    IF d.some THEN Ok(<<"/", "/", " ">> \o d.v \o <<"\n">>) ELSE Ok(<<>>)

RECURSIVE compile_type(_)
compile_type(t) ==
    CASE t.tag = "App" ->
            IF Len(t.args) = 0
            THEN Ok(t.name)
            ELSE LET args == MapJoin([i \in 1..Len(t.args) |-> compile_type(t.args[i])],
                                     <<",", " ">>)
                 IN  IF args.ok THEN Ok(t.name \o <<"<">> \o args.val \o <<">">>) ELSE args
      [] t.tag = "Var" ->
            (CASE t.type_.tag = "Link" -> compile_type(t.type_.type_)
               [] t.type_.tag = "Generic" -> Ok(<<"T">> \o NatToString(t.type_.id))
               [] t.type_.tag = "Unbound" -> Ok(<<"T">> \o NatToString(t.type_.id)))
      [] t.tag = "Fn" -> Todo(144)
      [] t.tag = "Tuple" -> Todo(145)

compile_argument(a) ==
    LET name == IF a.names.tag \in {"Named", "NamedLabelled"} THEN a.names.name ELSE <<"_">>
        typ == compile_type(a.type_)
    IN  IF typ.ok THEN Ok(name \o <<":", " ">> \o typ.val) ELSE typ

compile_arguments(a) ==
    MapJoin([i \in 1..Len(a) |-> compile_argument(a[i])], <<",", " ">>)

RECURSIVE find_generics(_)
find_generics(t) ==
    CASE t.tag = "App" ->
            LET rs == [i \in 1..Len(t.args) |-> find_generics(t.args[i])]
            IN  IF AllOk(rs) THEN OkIds(Concat(Ids(rs))) ELSE FirstPanic(rs)
      [] t.tag = "Var" ->
            (CASE t.type_.tag = "Unbound" -> OkIds(<<t.type_.id>>)
               [] t.type_.tag = "Link" -> find_generics(t.type_.type_)
               [] t.type_.tag = "Generic" -> OkIds(<<t.type_.id>>))
      [] t.tag = "Fn" -> Todo(326)
      [] t.tag = "Tuple" -> Todo(327)

\* The ids find_generics yields over the arguments, in order (the flat_map).
collect_generics(a) ==
    LET rs == [i \in 1..Len(a) |-> find_generics(a[i].type_)]
    IN  IF AllOk(rs) THEN OkIds(Concat(Ids(rs))) ELSE FirstPanic(rs)

\* compile_type_args writing the angle brackets around an empty list too
compile_type_args_EmptyClause(a) ==
    LET ids == collect_generics(a)
        names == [i \in 1..Len(ids.ids) |-> <<"T">> \o NatToString(ids.ids[i])]
    IN  IF ~ids.ok THEN ids ELSE Ok(<<"<">> \o Join(names, <<",", " ">>) \o <<">">>)

compile_type_args(a) ==
    LET ids == collect_generics(a)
        names == [i \in 1..Len(ids.ids) |-> <<"T">> \o NatToString(ids.ids[i])]
    IN  IF ~ids.ok THEN ids
        ELSE IF Len(names) = 0 THEN Ok(<<>>)
        ELSE Ok(<<"<">> \o Join(names, <<",", " ">>) \o <<">">>)

\* BinOp::name of the IR (crate::ast), the operator's source spelling.
BinOpName(op) ==
    CASE op = "AddInt" -> <<"+">>
      [] op = "SubInt" -> <<"-">>
      [] op = "MultInt" -> <<"*">>
      [] op = "DivInt" -> <<"/">>
      [] op = "AddFloat" -> <<"+", ".">>
      [] op = "Eq" -> <<"=", "=">>

compile_binop(op) == BinOpName(op)

\* a binary operation written without its parentheses
FormatBinOp_Bare(left, name, right) == left \o <<" ">> \o name \o <<" ">> \o right

\* format!("({left} {name} {right})")
FormatBinOp(left, name, right) == <<"(">> \o left \o <<" ">> \o name \o <<" ">> \o right \o <<")">>

\* format!("{name}") of a variable reference
FormatVar(name) == name

RECURSIVE compile_expression(_)
compile_call_arg(a) == compile_expression(a.value)

compile_expression(b) ==
    CASE b.tag = "Int" -> Ok(b.value)
      [] b.tag = "Float" -> Todo(160)
      [] b.tag = "String" -> Todo(165)
      [] b.tag = "Sequence" ->
            MapJoin([i \in 1..Len(b.expressions) |-> compile_expression(b.expressions[i])],
                    <<";", "\n">>)
      [] b.tag = "Pipeline" -> Todo(180)
      [] b.tag = "Var" -> Ok(FormatVar(b.name))
      [] b.tag = "Fn" -> Todo(196)
      [] b.tag = "List" -> Todo(202)
      [] b.tag = "Call" ->
            LET fun == compile_expression(b.fun)
                args == MapJoin([i \in 1..Len(b.args) |-> compile_call_arg(b.args[i])],
                                <<",", " ">>)
            IN  IF ~fun.ok THEN fun
                ELSE IF ~args.ok THEN args
                ELSE Ok(fun.val \o <<"(">> \o args.val \o <<")">>)
      [] b.tag = "BinOp" ->
            LET name == compile_binop(b.name)
                left == compile_expression(b.left)
                right == compile_expression(b.right)
            IN  IF ~left.ok THEN left
                ELSE IF ~right.ok THEN right
                ELSE Ok(FormatBinOp(left.val, name, right.val))
      [] b.tag = "Assignment" -> Todo(235)
      [] b.tag = "Try" -> Todo(242)
      [] b.tag = "Case" -> Todo(248)
      [] b.tag = "RecordAccess" -> Todo(255)
      [] b.tag = "ModuleSelect" -> Todo(263)
      [] b.tag = "Tuple" -> Todo(268)
      [] b.tag = "TupleIndex" -> Todo(274)
      [] b.tag = "Todo" -> Todo(279)
      [] b.tag = "BitString" -> Todo(284)
      [] b.tag = "RecordUpdate" -> Todo(290)
      [] b.tag = "Negate" -> Todo(291)

\* format!("{doc}{public}fn {name}{type_args}({arguments}) -> {return_type} {{\n{body}\n}}")
FormatFn(doc, public, name, type_args, arguments, return_type, body) ==
    doc \o public \o <<"f", "n", " ">> \o name \o type_args
        \o <<"(">> \o arguments \o <<")", " ", "-", ">", " ">> \o return_type
        \o <<" ", "{", "\n">> \o body \o <<"\n", "}">>

compile_statement(s) ==
    CASE s.tag = "Fn" ->
            LET doc == compile_doc(s.doc)
                public == compile_public(s.public)
                type_args == compile_type_args(s.arguments)
                arguments == compile_arguments(s.arguments)
                return_type == compile_type(s.return_type)
                body == compile_expression(s.body)
            IN  IF ~type_args.ok THEN type_args
                ELSE IF ~arguments.ok THEN arguments
                ELSE IF ~return_type.ok THEN return_type
                ELSE IF ~body.ok THEN body
                ELSE Ok(FormatFn(doc.val, public.val, s.name, type_args.val,
                                 arguments.val, return_type.val, body.val))
      [] s.tag = "TypeAlias" -> Todo(48)
      [] s.tag = "CustomType" -> Todo(58)
      [] s.tag = "ExternalFn" -> Todo(69)
      [] s.tag = "ExternalType" -> Todo(76)
      [] s.tag = "Import" -> Todo(83)
      [] s.tag = "ModuleConstant" -> Todo(92)

\* compile with the statements that fail left out of the text
compile_SkipFailed(m) ==
    LET rs == [i \in 1..Len(m.statements) |-> compile_statement(m.statements[i])]
    IN  Ok(Join(Vals(SelectSeq(rs, LAMBDA r : r.ok)), <<"\n", "\n">>))

\* compile with the statements joined last to first
compile_Reversed(m) ==
    LET n == Len(m.statements)
    IN  MapJoin([i \in 1..n |-> compile_statement(m.statements[n + 1 - i])], <<"\n", "\n">>)

compile(m) ==
    MapJoin([i \in 1..Len(m.statements) |-> compile_statement(m.statements[i])],
            <<"\n", "\n">>)

-----------------------------------------------------------------------------
(* ast.rs *)

compile_op(op) ==
    CASE op = "Add" -> <<"+">>
      [] op = "Sub" -> <<"-">>
      [] op = "Mul" -> <<"*">>
      [] op = "Div" -> <<"/">>

\* format!("{}: {}", f.name, pattern)
FormatPatternField(name, pattern) == name \o <<":", " ">> \o pattern

\* the fields of a struct pattern joined in another order than the IR gives
JoinPatternFields_Reordered(fields) ==
    Join([i \in 1..Len(fields) |-> fields[Len(fields) + 1 - i]], <<",", " ">>)

\* the fields of a struct pattern, rendered one by one and joined
JoinPatternFields(fields) == Join(fields, <<",", " ">>)

RECURSIVE compile_pattern(_)
compile_pattern_field(f) == FormatPatternField(f.name, compile_pattern(f.pattern))

compile_pattern(p) ==
    CASE p.tag = "Wildcard" -> <<"_">>
      [] p.tag = "Integer" -> IntToString(p.value) \o <<"i", "6", "4">>
      [] p.tag = "Variable" -> p.name
      [] p.tag = "Struct" ->
            LET fields == JoinPatternFields(
                              [i \in 1..Len(p.fields) |-> compile_pattern_field(p.fields[i])])
            IN  p.name \o <<" ", "{">> \o fields \o <<"}">>

\* format!("({left} {op} {right})")
AstFormatBinOp(left, op, right) == <<"(">> \o left \o <<" ">> \o op \o <<" ">> \o right \o <<")">>

\* format!("{}.clone()", name)
AstFormatVar(name) == name \o <<".", "c", "l", "o", "n", "e", "(", ")">>

RECURSIVE ast_compile_expression(_)
compile_expressions(body) == [i \in 1..Len(body) |-> ast_compile_expression(body[i])]

compile_branch(b) ==
    LET pattern == compile_pattern(b.pattern)
        body == Join(compile_expressions(b.body), <<";", "\n">>)
    IN  pattern \o <<" ", "=", ">", " ", "{", "\n">> \o body \o <<"\n", "}">>

compile_expression_field(f) == f.name \o <<":", " ">> \o ast_compile_expression(f.expression)

ast_compile_expression(ex) ==
    CASE ex.tag = "BinOp" ->
            LET op == compile_op(ex.op)
                left == ast_compile_expression(ex.left)
                right == ast_compile_expression(ex.right)
            IN  AstFormatBinOp(left, op, right)
      [] ex.tag = "Integer" -> IntToString(ex.value)
      [] ex.tag = "Var" -> AstFormatVar(ex.name)
      [] ex.tag = "Call" ->
            LET arguments == Join(compile_expressions(ex.arguments), <<",", " ">>)
            IN  ex.name \o <<"(">> \o arguments \o <<")">>
      [] ex.tag = "Match" ->
            LET on == ast_compile_expression(ex.on)
                branches == Concat([i \in 1..Len(ex.branches) |-> compile_branch(ex.branches[i])])
            IN  on \o <<" ", "{">> \o branches \o <<"}">>
      [] ex.tag = "Construct" ->
            LET fields == Join([i \in 1..Len(ex.fields) |->
                                    compile_expression_field(ex.fields[i])], <<",">>)
            IN  ex.name \o <<" ", "{">> \o fields \o <<"}">>

-----------------------------------------------------------------------------
(* The typed IR handed to compile.rs, within the bounds *)

App(name, args) == [tag |-> "App", name |-> name, args |-> args]
Generic(id) == [tag |-> "Var", type_ |-> [tag |-> "Generic", id |-> id]]
Unbound(id) == [tag |-> "Var", type_ |-> [tag |-> "Unbound", id |-> id]]
Link(t) == [tag |-> "Var", type_ |-> [tag |-> "Link", type_ |-> t]]
FnType(args, retrn) == [tag |-> "Fn", args |-> args, retrn |-> retrn]
TupleType(elems) == [tag |-> "Tuple", elems |-> elems]

IntT == App(<<"I", "n", "t">>, <<>>)
ListT(t) == App(<<"L", "i", "s", "t">>, <<t>>)
PairT(a, b) == App(<<"P", "a", "i", "r">>, <<a, b>>)

VarTypes == {Generic(1), Generic(2), Unbound(10)}

LeafTypes == {IntT} \cup VarTypes \cup {TupleType(<<IntT>>), FnType(<<IntT>>, IntT)}

LinkTypes == {Link(IntT), Link(Generic(1)), Link(Unbound(10)), Link(Link(Generic(1))),
              Link(ListT(Generic(2))), Link(TupleType(<<>>))}

NestedTypes ==
    {ListT(t) : t \in LeafTypes \cup {Link(Generic(1)), ListT(Generic(1))}}
        \cup {PairT(a, b) : a, b \in {IntT, Generic(1), Generic(2)}}
        \cup {TupleType(<<Generic(1), Generic(1)>>), FnType(<<Generic(2)>>, Generic(2))}

Types == LeafTypes \cup LinkTypes \cup NestedTypes

SigTypes == {IntT, Generic(1), Generic(2), Link(Unbound(10)), Link(IntT),
             ListT(Generic(1)), PairT(Generic(1), Generic(1)), TupleType(<<IntT>>)}

ReturnTypes == {IntT, Generic(1), Generic(2), Link(Unbound(10)), ListT(Generic(1)),
                FnType(<<>>, IntT)}

ArgNames == {[tag |-> "Named", name |-> <<"x">>], [tag |-> "Discard", name |-> <<"_", "y">>]}

Args(T) == {[names |-> n, type_ |-> t] : n \in ArgNames, t \in T}

NamedArgs(T) == {[names |-> [tag |-> "Named", name |-> <<"x">>], type_ |-> t] : t \in T}

UnsupportedTags ==
    {"Float", "String", "Pipeline", "Fn", "List", "Assignment", "Try", "Case",
     "RecordAccess", "ModuleSelect", "Tuple", "TupleIndex", "Todo", "BitString",
     "RecordUpdate", "Negate"}

IntE(v) == [tag |-> "Int", value |-> v]
VarE(n) == [tag |-> "Var", name |-> n]
BinOpE(op, l, r) == [tag |-> "BinOp", name |-> op, left |-> l, right |-> r]
CallE(f, as) == [tag |-> "Call", fun |-> f,
                 args |-> [i \in 1..Len(as) |-> [label |-> "none", value |-> as[i]]]]
SequenceE(es) == [tag |-> "Sequence", expressions |-> es]
UnsupportedE(tag) == [tag |-> tag]

BinOps == {"AddInt", "SubInt", "MultInt", "DivInt", "AddFloat", "Eq"}

LeafExprs ==
    {IntE(<<"1">>), IntE(<<"4", "2">>), VarE(<<"x">>), VarE(<<"y">>)}
        \cup {UnsupportedE(tag) : tag \in UnsupportedTags}

CoreExprs == {IntE(<<"1">>), VarE(<<"x">>), VarE(<<"y">>), UnsupportedE("Negate")}

Exprs1 ==
    {BinOpE(op, l, r) : op \in BinOps, l, r \in CoreExprs}
        \cup {BinOpE("AddInt", l, IntE(<<"1">>)) : l \in LeafExprs}
        \cup {BinOpE("AddInt", VarE(<<"x">>), r) : r \in LeafExprs}
        \cup {CallE(VarE(<<"f">>), as) : as \in Seqs(CoreExprs, 0, MaxArgs)}
        \cup {SequenceE(es) : es \in Seqs(CoreExprs, 1, MaxArgs)}

MidExprs == CoreExprs \cup {e \in Exprs1 : e.tag = "BinOp" /\ e.name \in {"AddInt", "Eq"}}

Exprs2 ==
    {BinOpE("MultInt", l, r) : l, r \in MidExprs}
        \cup {CallE(VarE(<<"f">>), <<a>>) : a \in Exprs1}
        \cup {CallE(a, <<VarE(<<"x">>), VarE(<<"x">>)>>) : a \in CoreExprs}
        \cup {SequenceE(<<a, b>>) : a \in MidExprs, b \in CoreExprs}

Exprs == LeafExprs \cup Exprs1 \cup Exprs2

Docs == {[some |-> FALSE, v |-> <<>>], [some |-> TRUE, v |-> <<"h", "i">>]}

FnS(name, arguments, return_type, body, public, doc) ==
    [tag |-> "Fn", name |-> name, arguments |-> arguments, return_type |-> return_type,
     body |-> body, public |-> public, doc |-> doc]

OtherS(tag) == [tag |-> tag]

OtherStatementTags ==
    {"TypeAlias", "CustomType", "ExternalFn", "ExternalType", "Import", "ModuleConstant"}

Bodies == {VarE(<<"x">>), BinOpE("AddInt", VarE(<<"x">>), IntE(<<"1">>)),
           UnsupportedE("Todo")}

Statements ==
    {FnS(<<"f">>, as, r, b, p, d) :
        as \in Seqs(NamedArgs(SigTypes), 0, MaxArgs), r \in ReturnTypes, b \in Bodies,
        p \in BOOLEAN, d \in Docs}
        \cup {FnS(<<"g">>, <<a>>, IntT, IntE(<<"1">>), FALSE, [some |-> FALSE, v |-> <<>>]) :
                 a \in Args({IntT, Generic(2)})}
        \cup {OtherS(tag) : tag \in OtherStatementTags}

TypeArgTypes ==
    {IntT, Generic(1), Generic(2), Unbound(10), Link(Generic(1)), Link(Link(Generic(1))),
     Link(IntT), ListT(Generic(1)), ListT(Link(Generic(2))), PairT(Generic(1), Generic(1)),
     PairT(Generic(2), Generic(1)), ListT(ListT(Unbound(10))), TupleType(<<Generic(1)>>),
     FnType(<<Generic(1)>>, Generic(2))}

ArgLists == Seqs(NamedArgs(TypeArgTypes), 0, MaxArgs)

ModuleBodies ==
    {IntE(<<"1">>), VarE(<<"x">>), UnsupportedE("Negate"),
     BinOpE("AddInt", VarE(<<"x">>), IntE(<<"1">>)),
     BinOpE("AddInt", VarE(<<"x">>), UnsupportedE("Float")),
     BinOpE("MultInt", BinOpE("AddInt", UnsupportedE("Case"), IntE(<<"1">>)), VarE(<<"y">>)),
     CallE(VarE(<<"f">>), <<VarE(<<"x">>), VarE(<<"x">>)>>),
     CallE(VarE(<<"f">>), <<BinOpE("AddInt", IntE(<<"1">>), UnsupportedE("List"))>>),
     CallE(UnsupportedE("ModuleSelect"), <<>>),
     SequenceE(<<VarE(<<"x">>), IntE(<<"1">>)>>),
     SequenceE(<<IntE(<<"1">>), CallE(VarE(<<"f">>), <<UnsupportedE("Tuple")>>)>>)}

ModuleStatements ==
    {FnS(<<"f">>, <<[names |-> [tag |-> "Named", name |-> <<"x">>], type_ |-> IntT]>>,
         IntT, b, FALSE, [some |-> FALSE, v |-> <<>>]) : b \in ModuleBodies}
        \cup {FnS(<<"i", "d">>, <<[names |-> [tag |-> "Named", name |-> <<"x">>], type_ |-> t]>>,
                  t, VarE(<<"x">>), TRUE, [some |-> TRUE, v |-> <<"h", "i">>]) :
                 t \in {Generic(1), TupleType(<<>>)}}
        \cup {OtherS(tag) : tag \in {"CustomType", "Import"}}

Modules == {[statements |-> ss] : ss \in Seqs(ModuleStatements, 0, MaxStmts)}

-----------------------------------------------------------------------------
(* The AST handed to ast.rs, within the bounds *)

Wildcard == [tag |-> "Wildcard"]
IntegerP(v) == [tag |-> "Integer", value |-> v]
VariableP(n) == [tag |-> "Variable", name |-> n]
StructP(n, fs) == [tag |-> "Struct", name |-> n, fields |-> fs]
PatternField(n, p) == [name |-> n, pattern |-> p]

Point == <<"P", "o", "i", "n", "t">>

LeafPatterns ==
    {Wildcard, IntegerP(0), IntegerP(-3), IntegerP(12), VariableP(<<"a">>), VariableP(<<"b">>)}

FieldNames == {<<"x">>, <<"y">>}

Patterns1 ==
    {StructP(Point, fs) :
        fs \in Seqs({PatternField(n, p) : n \in FieldNames, p \in LeafPatterns}, 0, MaxFields)}

MidPatterns ==
    {Wildcard, VariableP(<<"a">>), StructP(Point, <<>>),
     StructP(Point, <<PatternField(<<"y">>, VariableP(<<"b">>)),
                      PatternField(<<"x">>, VariableP(<<"a">>))>>),
     StructP(Point, <<PatternField(<<"x">>, IntegerP(-3))>>)}

Patterns2 ==
    {StructP(<<"L">>, fs) :
        fs \in Seqs({PatternField(n, p) : n \in FieldNames, p \in MidPatterns}, 0, MaxFields)}

Patterns == LeafPatterns \cup Patterns1 \cup Patterns2

IntegerA(v) == [tag |-> "Integer", value |-> v]
VarA(n) == [tag |-> "Var", name |-> n]
BinOpA(op, l, r) == [tag |-> "BinOp", op |-> op, left |-> l, right |-> r]
MatchA(on, bs) == [tag |-> "Match", on |-> on, branches |-> bs]
CallA(n, as) == [tag |-> "Call", name |-> n, arguments |-> as]
ConstructA(n, fs) == [tag |-> "Construct", name |-> n, fields |-> fs]
MatchBranch(p, body) == [pattern |-> p, body |-> body]
ExpressionField(n, e) == [name |-> n, expression |-> e]

AstOps == {"Add", "Sub", "Mul", "Div"}

AstLeaves == {IntegerA(1), IntegerA(-2), VarA(<<"x">>), VarA(<<"y">>)}

AstBranches ==
    {MatchBranch(p, body) :
        p \in {Wildcard, IntegerP(0),
                StructP(<<"P">>, <<PatternField(<<"h">>, VariableP(<<"a">>))>>)},
        body \in {<<VarA(<<"x">>)>>, <<IntegerA(1), VarA(<<"y">>)>>}}

AstExprs1 ==
    {BinOpA(op, l, r) : op \in AstOps, l, r \in AstLeaves}
        \cup {CallA(<<"f">>, as) : as \in Seqs(AstLeaves, 0, MaxArgs)}
        \cup {MatchA(VarA(<<"x">>), bs) : bs \in Seqs(AstBranches, 0, MaxFields)}
        \cup {ConstructA(<<"P">>, fs) :
                 fs \in Seqs({ExpressionField(n, e) : n \in {<<"h">>, <<"w">>},
                                                      e \in {IntegerA(1), VarA(<<"x">>)}},
                             0, MaxFields)}

AstMid ==
    AstLeaves \cup {e \in AstExprs1 : e.tag = "BinOp" /\ e.op \in {"Add", "Mul"}}
        \cup {CallA(<<"f">>, <<VarA(<<"x">>), VarA(<<"x">>)>>)}

AstExprs2 ==
    {BinOpA("Sub", l, r) : l, r \in AstMid}
        \cup {CallA(<<"g">>, <<a, VarA(<<"x">>)>>) : a \in AstExprs1}
        \cup {MatchA(a, <<MatchBranch(VariableP(<<"a">>), <<b>>)>>) :
                 a \in AstLeaves, b \in AstMid}

AstExprs == AstLeaves \cup AstExprs1 \cup AstExprs2

-----------------------------------------------------------------------------
(* compile_type, call by call, over type variables held in shared cells:        *)
(* Type::Var { type_: Arc<RefCell<TypeVar>> } is a reference to a cell, and a   *)
(* Link cell holds a Type that may refer to cells again.                        *)

Cells == 1..NumCells

CellVar(c) == [tag |-> "Var", cell |-> c]

CellLinkTargets ==
    {CellVar(c) : c \in Cells} \cup {ListT(CellVar(c)) : c \in Cells}
        \cup {IntT, TupleType(<<>>)}

CellVals ==
    {[tag |-> "Generic", id |-> 7], [tag |-> "Unbound", id |-> 10]}
        \cup {[tag |-> "Link", type_ |-> t] : t \in CellLinkTargets}

RootTypes ==
    {CellVar(c) : c \in Cells} \cup {ListT(CellVar(c)) : c \in Cells}
        \cup {PairT(CellVar(c), CellVar(d)) : c, d \in Cells}
        \cup {PairT(IntT, CellVar(c)) : c \in Cells}
        \cup {IntT, TupleType(<<>>), FnType(<<>>, IntT), ListT(FnType(<<>>, IntT))}

IdleCells == [c \in Cells |-> [tag |-> "Generic", id |-> 7]]

NoValue == [tag |-> "None"]

\* The recursion depth the stack allows.  No run over cells without a Link cycle
\* goes deeper; a run that does is an unbounded recursion.
StackLimit == 2 * NumCells + 1

Frame(t, d) == [t |-> t, d |-> d]

Emit(s) == Frame([tag |-> "Emit", s |-> s], 0)

\* Type::App: the name alone, or name<arg, ...> with each argument rendered by a
\* nested call
AppFrames(t, d) ==
    IF Len(t.args) = 0
    THEN <<Emit(t.name)>>
    ELSE <<Emit(t.name \o <<"<">>)>>
            \o Concat([i \in 1..Len(t.args) |->
                          IF i = 1 THEN <<Frame(t.args[i], d + 1)>>
                          ELSE <<Emit(<<",", " ">>), Frame(t.args[i], d + 1)>>])
            \o <<Emit(<<">">>)>>

\* A Link cell written out as a variable of its own instead of being followed
VarFrames_LinkUnresolved(v, d) ==
    CASE v.tag = "Link" -> <<Emit(<<"T", "0">>)>>
      [] v.tag = "Generic" -> <<Emit(<<"T">> \o NatToString(v.id))>>
      [] v.tag = "Unbound" -> <<Emit(<<"T">> \o NatToString(v.id))>>

\* Type::Var: what the borrowed cell holds decides
VarFrames(v, d) ==
    CASE v.tag = "Link" -> <<Frame(v.type_, d + 1)>>
      [] v.tag = "Generic" -> <<Emit(<<"T">> \o NatToString(v.id))>>
      [] v.tag = "Unbound" -> <<Emit(<<"T">> \o NatToString(v.id))>>

Running == pc = "run" /\ Len(work) > 0

ResetRun ==
    /\ pc' = "idle"
    /\ cells' = IdleCells
    /\ work' = <<>>
    /\ out' = <<>>

StartCompileType ==
    /\ call = "none"
    /\ \E cs \in [Cells -> CellVals], t \in RootTypes :
          /\ cells' = cs
          /\ arg' = t
          /\ work' = <<Frame(t, 1)>>
    /\ call' = "compile_type_run"
    /\ ret' = NoValue
    /\ out' = <<>>
    /\ pc' = "run"

StepApp ==
    /\ Running
    /\ Head(work).t.tag = "App"
    /\ Head(work).d <= StackLimit
    /\ work' = AppFrames(Head(work).t, Head(work).d) \o Tail(work)
    /\ UNCHANGED <<call, arg, ret, pc, cells, out>>

StepVar ==
    /\ Running
    /\ Head(work).t.tag = "Var"
    /\ Head(work).d <= StackLimit
    /\ work' = VarFrames(cells[Head(work).t.cell], Head(work).d) \o Tail(work)
    /\ UNCHANGED <<call, arg, ret, pc, cells, out>>

StepEmit ==
    /\ Running
    /\ Head(work).t.tag = "Emit"
    /\ out' = out \o Head(work).t.s
    /\ work' = Tail(work)
    /\ UNCHANGED <<call, arg, ret, pc, cells>>

StepTodo ==
    /\ Running
    /\ Head(work).t.tag \in {"Fn", "Tuple"}
    /\ Head(work).d <= StackLimit
    /\ pc' = "panic"
    /\ ret' = IF Head(work).t.tag = "Fn" THEN Todo(144) ELSE Todo(145)
    /\ work' = <<>>
    /\ out' = <<>>
    /\ UNCHANGED <<call, arg, cells>>

StepOverflow ==
    /\ Running
    /\ Head(work).t.tag # "Emit"
    /\ Head(work).d > StackLimit
    /\ pc' = "overflow"
    /\ work' = <<>>
    /\ out' = <<>>
    /\ UNCHANGED <<call, arg, ret, cells>>

StepReturn ==
    /\ pc = "run"
    /\ Len(work) = 0
    /\ pc' = "done"
    /\ ret' = Ok(out)
    /\ UNCHANGED <<call, arg, cells, work, out>>

Step == StepApp \/ StepVar \/ StepEmit \/ StepTodo \/ StepOverflow \/ StepReturn

-----------------------------------------------------------------------------
(* The calls a driver makes *)

Compile ==
    /\ call = "none"
    /\ \E m \in Modules : arg' = m /\ ret' = compile(m)
    /\ call' = "compile"
    /\ ResetRun

CompileStatement ==
    /\ call = "none"
    /\ \E s \in Statements : arg' = s /\ ret' = compile_statement(s)
    /\ call' = "compile_statement"
    /\ ResetRun

CompileTypeArgs ==
    /\ call = "none"
    /\ \E a \in ArgLists : arg' = [arguments |-> a] /\ ret' = compile_type_args(a)
    /\ call' = "compile_type_args"
    /\ ResetRun

FindGenerics ==
    /\ call = "none"
    /\ \E t \in Types : arg' = t /\ ret' = find_generics(t)
    /\ call' = "find_generics"
    /\ ResetRun

CompileType ==
    /\ call = "none"
    /\ \E t \in Types : arg' = t /\ ret' = compile_type(t)
    /\ call' = "compile_type"
    /\ ResetRun

CompileExpression ==
    /\ call = "none"
    /\ \E e \in Exprs : arg' = e /\ ret' = compile_expression(e)
    /\ call' = "compile_expression"
    /\ ResetRun

CompilePattern ==
    /\ call = "none"
    /\ \E p \in Patterns : arg' = p /\ ret' = Ok(compile_pattern(p))
    /\ call' = "compile_pattern"
    /\ ResetRun

AstCompileExpression ==
    /\ call = "none"
    /\ \E e \in AstExprs : arg' = e /\ ret' = Ok(ast_compile_expression(e))
    /\ call' = "ast_compile_expression"
    /\ ResetRun

Init ==
    /\ call = "none"
    /\ arg = NoValue
    /\ ret = NoValue
    /\ pc = "idle"
    /\ cells = IdleCells
    /\ work = <<>>
    /\ out = <<>>

Next ==
    \/ Compile
    \/ CompileStatement
    \/ CompileTypeArgs
    \/ FindGenerics
    \/ CompileType
    \/ CompileExpression
    \/ CompilePattern
    \/ AstCompileExpression
    \/ StartCompileType
    \/ StepApp
    \/ StepVar
    \/ StepEmit
    \/ StepTodo
    \/ StepOverflow
    \/ StepReturn

Spec == Init /\ [][Next]_vars

\* A started compile_type call runs on: nothing suspends it.
LiveSpec == Spec /\ WF_vars(Step)

-----------------------------------------------------------------------------
(* Reading rendered text and IR shapes, for the properties below *)

Count(text, ch) == Cardinality({i \in 1..Len(text) : text[i] = ch})

StartsWith(text, prefix) ==
    Len(prefix) <= Len(text) /\ SubSeq(text, 1, Len(prefix)) = prefix

IsInfix(part, text) ==
    \E i \in 0..(Len(text) - Len(part)) : SubSeq(text, i + 1, i + Len(part)) = part

Digits == {"0", "1", "2", "3", "4", "5", "6", "7", "8", "9"}

DigitValue(c) == CHOOSE d \in 0..9 : Digit(d) = c

\* the number written at text[i..], read after the digits seen so far gave acc
RECURSIVE ReadNat(_, _, _)
ReadNat(text, i, acc) ==
    IF i <= Len(text) /\ text[i] \in Digits
    THEN ReadNat(text, i + 1, 10 * acc + DigitValue(text[i]))
    ELSE acc

\* the ids of the synthetic names T<id> written in the text
SyntheticIds(text) ==
    {ReadNat(text, i + 1, 0) : i \in {j \in 1..Len(text) : text[j] = "T"}}

\* the ids of the Generic and Unbound variables of a type, Links followed, in order
RECURSIVE VarIdsOf(_)
VarIdsOf(t) ==
    CASE t.tag = "App" -> Concat([i \in 1..Len(t.args) |-> VarIdsOf(t.args[i])])
      [] t.tag = "Var" ->
            IF t.type_.tag = "Link" THEN VarIdsOf(t.type_.type_) ELSE <<t.type_.id>>
      [] t.tag = "Fn" ->
            Concat([i \in 1..Len(t.args) |-> VarIdsOf(t.args[i])]) \o VarIdsOf(t.retrn)
      [] t.tag = "Tuple" -> Concat([i \in 1..Len(t.elems) |-> VarIdsOf(t.elems[i])])

RECURSIVE Dedup(_)
Dedup(ids) ==
    IF Len(ids) = 0 THEN <<>>
    ELSE LET n == Len(ids)
             front == Dedup(SubSeq(ids, 1, n - 1))
         IN  IF \E j \in 1..(n - 1) : ids[j] = ids[n] THEN front ELSE Append(front, ids[n])

GenericClause(ids) ==
    IF Len(ids) = 0 THEN <<>>
    ELSE <<"<">> \o Join([i \in 1..Len(ids) |-> <<"T">> \o NatToString(ids[i])], <<",", " ">>)
             \o <<">">>

\* the type a tree type stands for once its outer Links are followed
RECURSIVE ResolveTree(_)
ResolveTree(t) ==
    IF t.tag = "Var" /\ t.type_.tag = "Link" THEN ResolveTree(t.type_.type_) ELSE t

SignaturePrefix(s) ==
    compile_doc(s.doc).val \o compile_public(s.public).val \o <<"f", "n", " ">> \o s.name

RECURSIVE HasUnsupported(_)
HasUnsupported(e) ==
    CASE e.tag \in UnsupportedTags -> TRUE
      [] e.tag = "Sequence" ->
            \E i \in 1..Len(e.expressions) : HasUnsupported(e.expressions[i])
      [] e.tag = "Call" ->
            HasUnsupported(e.fun) \/ \E i \in 1..Len(e.args) : HasUnsupported(e.args[i].value)
      [] e.tag = "BinOp" -> HasUnsupported(e.left) \/ HasUnsupported(e.right)
      [] OTHER -> FALSE

\* the sub-expressions of an IR expression, itself included
RECURSIVE SubExprs(_)
SubExprs(e) ==
    {e} \cup
    (CASE e.tag = "Sequence" ->
            UNION {SubExprs(e.expressions[i]) : i \in 1..Len(e.expressions)}
       [] e.tag = "Call" ->
            SubExprs(e.fun) \cup UNION {SubExprs(e.args[i].value) : i \in 1..Len(e.args)}
       [] e.tag = "BinOp" -> SubExprs(e.left) \cup SubExprs(e.right)
       [] OTHER -> {})

\* how many nodes with one of the tags an IR expression has
RECURSIVE CountTags(_, _)
\* the nodes with one of the tags in a sequence of IR expressions
CountAll(es, tags) ==
    LET n[i \in 0..Len(es)] == IF i = 0 THEN 0 ELSE n[i - 1] + CountTags(es[i], tags)
    IN  n[Len(es)]

CountTags(e, tags) ==
    (IF e.tag \in tags THEN 1 ELSE 0) +
    (CASE e.tag = "Sequence" -> CountAll(e.expressions, tags)
       [] e.tag = "Call" ->
            CountTags(e.fun, tags) + CountAll([i \in 1..Len(e.args) |-> e.args[i].value], tags)
       [] e.tag = "BinOp" -> CountTags(e.left, tags) + CountTags(e.right, tags)
       [] OTHER -> 0)

RECURSIVE AstSubExprs(_)
AstSubExprs(e) ==
    {e} \cup
    (CASE e.tag = "BinOp" -> AstSubExprs(e.left) \cup AstSubExprs(e.right)
       [] e.tag = "Call" -> UNION {AstSubExprs(e.arguments[i]) : i \in 1..Len(e.arguments)}
       [] e.tag = "Match" ->
            AstSubExprs(e.on) \cup
            UNION {UNION {AstSubExprs(e.branches[i].body[j]) : j \in 1..Len(e.branches[i].body)} :
                       i \in 1..Len(e.branches)}
       [] e.tag = "Construct" ->
            UNION {AstSubExprs(e.fields[i].expression) : i \in 1..Len(e.fields)}
       [] OTHER -> {})

RECURSIVE AstCountTags(_, _)
\* the nodes with one of the tags in a sequence of AST expressions
AstCountAll(es, tags) ==
    LET n[i \in 0..Len(es)] == IF i = 0 THEN 0 ELSE n[i - 1] + AstCountTags(es[i], tags)
    IN  n[Len(es)]

AstCountTags(e, tags) ==
    (IF e.tag \in tags THEN 1 ELSE 0) +
    (CASE e.tag = "BinOp" -> AstCountTags(e.left, tags) + AstCountTags(e.right, tags)
       [] e.tag = "Call" -> AstCountAll(e.arguments, tags)
       [] e.tag = "Match" ->
            AstCountTags(e.on, tags)
                + AstCountAll(Concat([i \in 1..Len(e.branches) |-> e.branches[i].body]), tags)
       [] e.tag = "Construct" ->
            AstCountAll([i \in 1..Len(e.fields) |-> e.fields[i].expression], tags)
       [] OTHER -> 0)

\* every occurrence of a referenced variable's name is followed by .clone()
VarNames == {"x", "y"}

Cloned(text) ==
    \A i \in 1..Len(text) :
        text[i] \in VarNames =>
            /\ i + 8 <= Len(text)
            /\ SubSeq(text, i + 1, i + 8) = <<".", "c", "l", "o", "n", "e", "(", ")">>

\* the field names of a pattern, outermost first and in the order the IR gives them
RECURSIVE FieldNamesOf(_)
FieldNamesOf(p) ==
    IF p.tag = "Struct"
    THEN Concat([i \in 1..Len(p.fields) |->
                    p.fields[i].name \o FieldNamesOf(p.fields[i].pattern)])
    ELSE <<>>

\* the characters of a text that a colon follows, in order: its field labels
RECURSIVE LabelsFrom(_, _)
LabelsFrom(text, i) ==
    IF i >= Len(text) THEN <<>>
    ELSE IF text[i + 1] = ":" THEN <<text[i]>> \o LabelsFrom(text, i + 1)
    ELSE LabelsFrom(text, i + 1)

\* where the i-th of the joined segments starts, less one
RECURSIVE SegmentOffset(_, _, _)
SegmentOffset(segs, sep, i) ==
    IF i = 1 THEN 0
    ELSE SegmentOffset(segs, sep, i - 1) + Len(segs[i - 1]) + Len(sep)

\* the cells a type over cells mentions
RECURSIVE CellsOf(_)
CellsOf(t) ==
    CASE t.tag = "Var" -> {t.cell}
      [] t.tag = "App" -> UNION {CellsOf(t.args[i]) : i \in 1..Len(t.args)}
      [] t.tag = "Fn" -> UNION {CellsOf(t.args[i]) : i \in 1..Len(t.args)} \cup CellsOf(t.retrn)
      [] t.tag = "Tuple" -> UNION {CellsOf(t.elems[i]) : i \in 1..Len(t.elems)}

LinkedCells(cs, c) == IF cs[c].tag = "Link" THEN CellsOf(cs[c].type_) ELSE {}

RECURSIVE Reach(_, _, _)
Reach(cs, S, n) ==
    IF n = 0 THEN S ELSE Reach(cs, S \cup UNION {LinkedCells(cs, c) : c \in S}, n - 1)

\* no cell the type reaches lies on a cycle of Links
AcyclicFrom(cs, t) ==
    \A c \in Reach(cs, CellsOf(t), NumCells) : c \notin Reach(cs, LinkedCells(cs, c), NumCells)

\* the type over cells with its outer Links followed to their target
RECURSIVE Resolve(_, _)
Resolve(cs, t) ==
    IF t.tag = "Var" /\ cs[t.cell].tag = "Link" THEN Resolve(cs, cs[t.cell].type_) ELSE t

\* the tree a type over cells without Link cycles unfolds to
RECURSIVE Unfold(_, _)
Unfold(cs, t) ==
    CASE t.tag = "Var" ->
            IF cs[t.cell].tag = "Link"
            THEN Link(Unfold(cs, cs[t.cell].type_))
            ELSE [tag |-> "Var", type_ |-> cs[t.cell]]
      [] t.tag = "App" -> App(t.name, [i \in 1..Len(t.args) |-> Unfold(cs, t.args[i])])
      [] t.tag = "Fn" ->
            FnType([i \in 1..Len(t.args) |-> Unfold(cs, t.args[i])], Unfold(cs, t.retrn))
      [] t.tag = "Tuple" -> TupleType([i \in 1..Len(t.elems) |-> Unfold(cs, t.elems[i])])

-----------------------------------------------------------------------------
(* Properties *)

\* C1: the generic-parameter list compile_type_args renders holds each distinct
\* Generic/Unbound identity of the argument types exactly once, in order of first
\* occurrence.
C1_GenericsDeduplicated ==
    (call = "compile_type_args" /\ ret.ok) =>
        ret.val = GenericClause(Dedup(Concat([i \in 1..Len(arg.arguments) |->
                                                 VarIdsOf(arg.arguments[i].type_)])))

\* The state part of C2: over cells without a Link cycle compile_type never runs
\* out of stack; what it returns for a type is what it returns for the type its
\* Links resolve to, and it writes a synthetic name T<id> once per Generic or
\* Unbound variable and for nothing else.
C2_Resolved ==
    (call = "compile_type_run" /\ AcyclicFrom(cells, arg)) =>
        /\ pc # "overflow"
        /\ pc \in {"done", "panic"} =>
              /\ ret = compile_type(Unfold(cells, arg))
              /\ ret = compile_type(Unfold(cells, Resolve(cells, arg)))
              /\ pc = "done" =>
                    /\ Count(ret.val, "T") = Len(VarIdsOf(Unfold(cells, arg)))
                    /\ SyntheticIds(ret.val) = {VarIdsOf(Unfold(cells, arg))[i] :
                                                  i \in 1..Len(VarIdsOf(Unfold(cells, arg)))}

\* C2: compile_type over cells without a Link cycle always ends (termination under
\* LiveSpec), and at every point of the run the results are those of C2_Resolved.
C2_LinksFollowed ==
    /\ [] C2_Resolved
    /\ (call = "compile_type_run" /\ AcyclicFrom(cells, arg)) ~> (pc \in {"done", "panic"})

C2_Witness ==
    /\ pc = "done"
    /\ arg = CellVar(2)
    /\ cells[2] = [tag |-> "Link", type_ |-> ListT(CellVar(1))]
    /\ cells[1] = [tag |-> "Link", type_ |-> IntT]
    /\ ret.val = <<"L", "i", "s", "t", "<", "I", "n", "t", ">">>

\* C3: a module with a statement whose body holds, at any depth, an expression
\* variant without a rendering makes compile fail, and no text is returned.
C3_UnsupportedFails ==
    (call = "compile" /\ \E i \in 1..Len(arg.statements) :
                            /\ arg.statements[i].tag = "Fn"
                            /\ HasUnsupported(arg.statements[i].body)) =>
        ~ret.ok /\ ret.val = <<>> /\ ret.line > 0

C3_Witness ==
    /\ call = "compile"
    /\ Len(arg.statements) = 2
    /\ compile_statement(arg.statements[1]).ok
    /\ arg.statements[2].tag = "Fn"
    /\ arg.statements[2].body.tag = "Call"
    /\ HasUnsupported(arg.statements[2].body)
    /\ ~ret.ok

\* C4: compile_type and find_generics return for every Type variant, Function and
\* Tuple included, also nested as type arguments.
C4_TypeTotal == call \in {"compile_type", "find_generics"} => ret.ok

\* C5: compile returns the statements' renderings in declaration order, a blank
\* line between two of them and nothing before the first or after the last; an
\* empty module gives the empty text.
C5_StatementsInOrder ==
    (call = "compile" /\ \A i \in 1..Len(arg.statements) : compile_statement(arg.statements[i]).ok) =>
        LET n == Len(arg.statements)
            segs == [i \in 1..n |-> compile_statement(arg.statements[i]).val]
            sep == <<"\n", "\n">>
            off(i) == SegmentOffset(segs, sep, i)
        IN  /\ ret.ok
            /\ n = 0 => ret.val = <<>>
            /\ n > 0 => Len(ret.val) = off(n) + Len(segs[n])
            /\ \A i \in 1..n : SubSeq(ret.val, off(i) + 1, off(i) + Len(segs[i])) = segs[i]
            /\ \A i \in 1..(n - 1) :
                  SubSeq(ret.val, off(i) + Len(segs[i]) + 1, off(i + 1)) = sep

C5_Witness ==
    /\ call = "compile"
    /\ ret.ok
    /\ Len(arg.statements) = 2
    /\ arg.statements[1].name = <<"i", "d">>
    /\ arg.statements[2].name = <<"f">>

\* C6: every binary operation, at every depth, renders as "(" left " " operator " "
\* right ")", the left operand first, one pair of parentheses per BinOp node.
C6_BinOpParenthesized ==
    /\ (call = "compile_expression" /\ ret.ok) =>
          /\ Count(ret.val, "(") = CountTags(arg, {"BinOp", "Call"})
          /\ Count(ret.val, ")") = CountTags(arg, {"BinOp", "Call"})
          /\ \A e \in SubExprs(arg) :
                e.tag = "BinOp" =>
                    LET text == <<"(">> \o compile_expression(e.left).val \o <<" ">>
                                    \o BinOpName(e.name) \o <<" ">>
                                    \o compile_expression(e.right).val \o <<")">>
                    IN  IsInfix(text, ret.val) /\ (e = arg => ret.val = text)
    /\ call = "ast_compile_expression" =>
          /\ Count(ret.val, "(") = AstCountTags(arg, {"BinOp", "Call", "Var"})
          /\ Count(ret.val, ")") = AstCountTags(arg, {"BinOp", "Call", "Var"})
          /\ \A e \in AstSubExprs(arg) :
                e.tag = "BinOp" =>
                    LET text == <<"(">> \o ast_compile_expression(e.left) \o <<" ">>
                                    \o compile_op(e.op) \o <<" ">>
                                    \o ast_compile_expression(e.right) \o <<")">>
                    IN  IsInfix(text, ret.val) /\ (e = arg => ret.val = text)

C6_Witness ==
    /\ call = "compile_expression"
    /\ ret.ok
    /\ arg.tag = "BinOp"
    /\ arg.left.tag = "BinOp"
    /\ arg.right.tag = "BinOp"
    /\ Count(ret.val, "(") = 3

\* C7: every variable reference renders as the name followed by a duplication
\* (.clone()), never as the bare name.
C7_VariablesDuplicated ==
    /\ (call = "compile_expression" /\ ret.ok) => Cloned(ret.val)
    /\ call = "ast_compile_expression" => Cloned(ret.val)

\* C8: a function whose argument types hold no Generic or Unbound variable, Links
\* followed, renders without a generic-parameter clause: the name is followed at
\* once by the "(" of the argument list.
C8_NoEmptyClause ==
    (/\ call = "compile_statement"
     /\ arg.tag = "Fn"
     /\ ret.ok
     /\ \A i \in 1..Len(arg.arguments) : Len(VarIdsOf(arg.arguments[i].type_)) = 0) =>
        StartsWith(ret.val, SignaturePrefix(arg) \o <<"(">>)

C8_Witness ==
    /\ call = "compile_statement"
    /\ arg.tag = "Fn"
    /\ ret.ok
    /\ Len(arg.arguments) = 2
    /\ arg.arguments[1].type_ = Link(IntT)
    /\ arg.return_type = IntT

\* C9: a function whose sole argument's type is a Generic or Unbound variable,
\* perhaps behind Links, renders with exactly one generic parameter, that name is
\* the one in the parameter type, and the signature writes no synthetic name the
\* clause does not declare.
C9_SoleGenericConsistent ==
    (/\ call = "compile_statement"
     /\ arg.tag = "Fn"
     /\ ret.ok
     /\ Len(arg.arguments) = 1
     /\ ResolveTree(arg.arguments[1].type_).tag = "Var") =>
        LET id == ResolveTree(arg.arguments[1].type_).type_.id
            name == <<"T">> \o NatToString(id)
            argname == IF arg.arguments[1].names.tag = "Named"
                       THEN arg.arguments[1].names.name ELSE <<"_">>
        IN  /\ StartsWith(ret.val, SignaturePrefix(arg) \o <<"<">> \o name \o <<">", "(">>
                                      \o argname \o <<":", " ">> \o name \o <<")">>)
            /\ SyntheticIds(ret.val) \subseteq {id}

\* C10: compile_pattern renders a struct destructure as Name {field: pattern, ...},
\* the fields in the order the IR gives them, nested ones too; a wildcard as "_"
\* and a variable bind as its name.
C10_PatternFieldOrder ==
    call = "compile_pattern" =>
        /\ arg.tag = "Wildcard" => ret.val = <<"_">>
        /\ arg.tag = "Variable" => ret.val = arg.name
        /\ arg.tag = "Struct" =>
              /\ LabelsFrom(ret.val, 1) = FieldNamesOf(arg)
              /\ ret.val = arg.name \o <<" ", "{">>
                          \o Join([i \in 1..Len(arg.fields) |->
                                      arg.fields[i].name \o <<":", " ">>
                                          \o compile_pattern(arg.fields[i].pattern)],
                                  <<",", " ">>)
                          \o <<"}">>

C10_Witness ==
    /\ call = "compile_pattern"
    /\ arg = StructP(Point, <<PatternField(<<"y">>, VariableP(<<"b">>)),
                             PatternField(<<"x">>, VariableP(<<"a">>))>>)
    /\ ret.val = <<"P", "o", "i", "n", "t", " ", "{", "y", ":", " ", "b", ",", " ",
               "x", ":", " ", "a", "}">>

====
